---- MODULE Spec2Model ----
(***************************************************************************)
(* Model of the LLM chat application template:                            *)
(*   - the edge Worker (request router + chat relay), src/unnamed/part_000 *)
(*   - the offline cache shell (service worker), src/sw.js                 *)
(* The two components share no state; SpecRouter runs the edge Worker and  *)
(* SpecShell runs the service worker.                                      *)
(***************************************************************************)
EXTENDS Naturals, Sequences, FiniteSets

VARIABLES
    edgePc,      \* "idle" | "pending" | "responded": position of the edge fetch handler
    request,     \* the Request given to the edge fetch handler
    response,    \* the Response the edge fetch handler resolved with
    aiCalls,     \* arguments of every env.AI.run call made for this request
    assetCalls,  \* every env.ASSETS.fetch call made for this request, with what it returned
    jsonReads,   \* number of request.json() calls made for this request
    relayCalls,  \* number of handleChatRequest calls made for this request
    workers,     \* the service worker versions deployed so far: each one's CACHE_NAME
    phase,       \* lifecycle position of the newest service worker version
    caches,      \* the browser's CacheStorage: the buckets, in creation order
    toDelete,    \* activate: the bucket names whose caches.delete is still pending
    installed,   \* the shell assets the newest version's install could fetch
    handlers     \* the fetch events dispatched so far, each with its handler's position

edgeVars == <<edgePc, request, response, aiCalls, assetCalls, jsonReads, relayCalls>>

shellVars == <<workers, phase, caches, toDelete, installed, handlers>>

vars == <<edgePc, request, response, aiCalls, assetCalls, jsonReads, relayCalls,
          workers, phase, caches, toDelete, installed, handlers>>

(***************************************************************************)
(* Bounds                                                                  *)
(***************************************************************************)
\* longest message list in a request body
MaxLen == 2

\* number of service worker versions deployed in a run
MaxWorkers == 2

\* number of fetch events the service worker receives in a run
MaxEvents == 1

\* number of fetch events for one asset in a run of racing requests
MaxRacers == 2

(***************************************************************************)
(* Strings and URLs.  A path is the sequence of its characters, so that    *)
(* String.prototype.startsWith is computed character by character.         *)
(***************************************************************************)
StartsWith(s, prefix) ==
    /\ Len(s) >= Len(prefix)
    /\ \A i \in 1..Len(prefix) : s[i] = prefix[i]

PathRoot == <<"/">>
PathApiPrefix == <<"/", "a", "p", "i", "/">>
PathApiChat == <<"/", "a", "p", "i", "/", "c", "h", "a", "t">>
PathIndexHtml == <<"/", "i", "n", "d", "e", "x", ".", "h", "t", "m", "l">>

\* new URL(request.url).pathname: the path without query string
Pathname(url) == url.path

(***************************************************************************)
(* Edge Worker constants                                                   *)
(***************************************************************************)
MODEL_ID == "@cf/meta/llama-3.1-8b-instruct-fp8"

\* the text is abbreviated to its first sentence
SYSTEM_PROMPT == "You are Ben, a sharp and thoughtful AI assistant."

MAX_TOKENS == 1024

\* { role: "system", content: SYSTEM_PROMPT }
DefaultSystemMessage == [kind |-> "object", role |-> "system", content |-> SYSTEM_PROMPT]

(***************************************************************************)
(* Inputs of the edge Worker                                               *)
(***************************************************************************)
Methods == {"GET", "POST", "PUT"}

EdgePaths ==
    { PathRoot,
      PathIndexHtml,
      <<"/", "a", "p", "i">>,
      <<"/", "a", "p", "i", "x">>,
      PathApiPrefix,
      PathApiChat,
      PathApiChat \o <<"/">>,
      PathApiPrefix \o <<"u", "n", "k", "n", "o", "w", "n">> }

Queries == {"", "?q=1"}

Urls == [path : EdgePaths, query : Queries]

\* an entry of a messages array: a ChatMessage object, or JSON null
Entries ==
    [kind : {"object"}, role : {"system", "user", "assistant"}, content : {"hi", "yo"}]
    \cup {[kind |-> "null", role |-> "", content |-> ""]}

EntryLists == UNION {[1..n -> Entries] : n \in 0..MaxLen}

\* the value of the body's "messages" property
MessagesValues ==
    [kind : {"undefined", "null", "string", "number"}, items : {<<>>}]
    \cup [kind : {"array"}, items : EntryLists]

NoMessages == [kind |-> "undefined", items |-> <<>>]

\* a request body: text that is not JSON, or a JSON value
Bodies ==
    [kind : {"malformed", "null", "number", "string", "boolean", "array"},
     messages : {NoMessages}]
    \cup [kind : {"object"}, messages : MessagesValues]

Requests == [method : Methods, url : Urls, body : Bodies]

NoRequest == [method |-> "", url |-> [path |-> <<>>, query |-> ""],
              body |-> [kind |-> "none", messages |-> NoMessages]]

\* what env.AI.run does: returns a stream handle, or throws
AIOutcomes == {"stream-1", "stream-2", "throw"}

\* what env.ASSETS.fetch returns
AssetResponses ==
    { [status |-> 200, body |-> "asset bytes",
       headers |-> {<<"content-type", "text/html">>}],
      [status |-> 404, body |-> "asset not found", headers |-> {}] }

NoResponse == [status |-> 0, body |-> "", headers |-> {}]

(***************************************************************************)
(* Chat relay                                                              *)
(***************************************************************************)
\* faulty variant: destructuring that lets null through to the default
DestructureMessagesNullDefault(body) ==
    IF body.kind = "malformed"
    THEN [threw |-> TRUE, messages |-> NoMessages]
    ELSE IF body.kind = "object" /\ body.messages.kind # "undefined"
         THEN [threw |-> FALSE, messages |-> body.messages]
         ELSE [threw |-> FALSE, messages |-> [kind |-> "array", items |-> <<>>]]

\* const { messages = [] } = (await request.json()):
\* request.json() throws on text that is not JSON; destructuring throws on
\* null; a property missing from the value (any object, array or primitive)
\* takes the default.
DestructureMessages(body) ==
    IF body.kind \in {"malformed", "null"}
    THEN [threw |-> TRUE, messages |-> NoMessages]
    ELSE IF body.kind = "object" /\ body.messages.kind # "undefined"
         THEN [threw |-> FALSE, messages |-> body.messages]
         ELSE [threw |-> FALSE, messages |-> [kind |-> "array", items |-> <<>>]]

\* items.some((msg) => msg.role === "system"), from index i on: stops at the
\* first system entry; reading .role of null throws.
RECURSIVE SomeSystemFrom(_, _)
SomeSystemFrom(items, i) ==
    IF i > Len(items) THEN [threw |-> FALSE, found |-> FALSE]
    ELSE IF items[i].kind = "null" THEN [threw |-> TRUE, found |-> FALSE]
    ELSE IF items[i].role = "system" THEN [threw |-> FALSE, found |-> TRUE]
    ELSE SomeSystemFrom(items, i + 1)

\* messages.some(...): a value that is no array has no method some
SomeSystem(messages) ==
    IF messages.kind # "array" THEN [threw |-> TRUE, found |-> FALSE]
    ELSE SomeSystemFrom(messages.items, 1)

\* items.unshift(m)
Unshift(items, m) == <<m>> \o items

\* faulty variant: push instead of unshift
WithSystemPromptPushed(items, found) ==
    IF ~found THEN Append(items, DefaultSystemMessage) ELSE items

\* faulty variant: the system prompt is injected whether or not one is present
WithSystemPromptAlways(items, found) == Unshift(items, DefaultSystemMessage)

\* faulty variant: the system prompt is never injected
WithSystemPromptNever(items, found) == items

\* if (!messages.some(...)) messages.unshift({role: "system", ...})
WithSystemPrompt(items, found) ==
    IF ~found THEN Unshift(items, DefaultSystemMessage) ELSE items

\* the catch block's response
ErrorResponse ==
    [status |-> 500,
     body |-> "{\"error\":\"Failed to process request\"}",
     headers |-> {<<"content-type", "application/json">>}]

\* faulty variant: the stream is sent without the event-stream content type
StreamResponseAsJson(stream) ==
    [status |-> 200,
     body |-> stream,
     headers |-> { <<"content-type", "application/json">>,
                   <<"cache-control", "no-cache">>,
                   <<"connection", "keep-alive">> }]

\* new Response(stream, { headers: {...} })
StreamResponse(stream) ==
    [status |-> 200,
     body |-> stream,
     headers |-> { <<"content-type", "text/event-stream; charset=utf-8">>,
                   <<"cache-control", "no-cache">>,
                   <<"connection", "keep-alive">> }]

\* the arguments of env.AI.run
AIArgs(items) ==
    [model |-> MODEL_ID, messages |-> items, max_tokens |-> MAX_TOKENS, stream |-> TRUE]

\* one env.AI.run call: its arguments and what it did (a stream handle, or "throw")
AICall(items, ai) == [args |-> AIArgs(items), returned |-> ai]

\* faulty variant: a failed env.AI.run is tried a second time
handleChatRequestRetrying(req, ai) ==
    LET d == DestructureMessages(req.body)
        s == SomeSystem(d.messages)
        items == WithSystemPrompt(d.messages.items, s.found)
    IN  IF d.threw \/ s.threw
        THEN [response |-> ErrorResponse, ai |-> <<>>, reads |-> 1]
        ELSE IF ai = "throw"
             THEN [response |-> ErrorResponse,
                   ai |-> <<AICall(items, ai), AICall(items, ai)>>, reads |-> 1]
             ELSE [response |-> StreamResponse(ai), ai |-> <<AICall(items, ai)>>, reads |-> 1]

\* handleChatRequest(request, env), with `ai` what env.AI.run does if called:
\* the response, the AI calls made and the number of body reads
handleChatRequest(req, ai) ==
    LET d == DestructureMessages(req.body)
        s == SomeSystem(d.messages)
        items == WithSystemPrompt(d.messages.items, s.found)
    IN  IF d.threw \/ s.threw
        THEN [response |-> ErrorResponse, ai |-> <<>>, reads |-> 1]
        ELSE IF ai = "throw"
             THEN [response |-> ErrorResponse, ai |-> <<AICall(items, ai)>>, reads |-> 1]
             ELSE [response |-> StreamResponse(ai), ai |-> <<AICall(items, ai)>>, reads |-> 1]

(***************************************************************************)
(* Request router                                                          *)
(***************************************************************************)
\* faulty variant: the prefix test without the trailing slash
IsStaticRouteNoSlash(pathname) ==
    pathname = PathRoot \/ ~StartsWith(pathname, <<"/", "a", "p", "i">>)

\* url.pathname === "/" || !url.pathname.startsWith("/api/")
IsStaticRoute(pathname) ==
    pathname = PathRoot \/ ~StartsWith(pathname, PathApiPrefix)

\* faulty variant: a prefix test in place of equality
IsChatRoutePrefix(pathname) == StartsWith(pathname, PathApiChat)

\* url.pathname === "/api/chat"
IsChatRoute(pathname) == pathname = PathApiChat

\* faulty variant: PUT is accepted as well
IsPostOrPut(method) == method \in {"POST", "PUT"}

\* request.method === "POST"
IsPost(method) == method = "POST"

MethodNotAllowed ==
    [status |-> 405, body |-> "Method not allowed",
     headers |-> {<<"content-type", "text/plain;charset=UTF-8">>}]

NotFound ==
    [status |-> 404, body |-> "Not found",
     headers |-> {<<"content-type", "text/plain;charset=UTF-8">>}]

\* a request arrives at the edge Worker
Arrive(req) ==
    /\ edgePc = "idle"
    /\ edgePc' = "pending"
    /\ request' = req
    /\ UNCHANGED <<response, aiCalls, assetCalls, jsonReads, relayCalls>>
    /\ UNCHANGED shellVars

\* export default { fetch(request, env, ctx) }
fetch(ai, asset) ==
    /\ edgePc = "pending"
    /\ edgePc' = "responded"
    /\ LET pathname == Pathname(request.url) IN
       IF IsStaticRoute(pathname)
       THEN /\ response' = asset
            /\ assetCalls' = <<[request |-> request, returned |-> asset]>>
            /\ UNCHANGED <<aiCalls, jsonReads, relayCalls>>
       ELSE IF IsChatRoute(pathname)
            THEN IF IsPost(request.method)
                 THEN LET r == handleChatRequest(request, ai) IN
                      /\ response' = r.response
                      /\ aiCalls' = r.ai
                      /\ jsonReads' = r.reads
                      /\ relayCalls' = 1
                      /\ UNCHANGED assetCalls
                 ELSE /\ response' = MethodNotAllowed
                      /\ UNCHANGED <<aiCalls, assetCalls, jsonReads, relayCalls>>
            ELSE /\ response' = NotFound
                 /\ UNCHANGED <<aiCalls, assetCalls, jsonReads, relayCalls>>
    /\ UNCHANGED request
    /\ UNCHANGED shellVars

\* the response is handed to the client; the Worker keeps nothing of the request
Deliver ==
    /\ edgePc = "responded"
    /\ edgePc' = "idle"
    /\ request' = NoRequest
    /\ response' = NoResponse
    /\ aiCalls' = <<>>
    /\ assetCalls' = <<>>
    /\ jsonReads' = 0
    /\ relayCalls' = 0
    /\ UNCHANGED shellVars

EdgeInit ==
    /\ edgePc = "idle"
    /\ request = NoRequest
    /\ response = NoResponse
    /\ aiCalls = <<>>
    /\ assetCalls = <<>>
    /\ jsonReads = 0
    /\ relayCalls = 0

RouterNext ==
    \/ \E req \in Requests : Arrive(req)
    \/ \E ai \in AIOutcomes, asset \in AssetResponses : fetch(ai, asset)
    \/ Deliver

(***************************************************************************)
(* Offline cache shell (src/sw.js): constants and inputs                   *)
(***************************************************************************)
\* CACHE_NAME of a deployed version: 'ben-chat-v' followed by the number n
CacheName(n) == <<"ben-chat-v", n>>

PathChatJs == <<"/", "c", "h", "a", "t", ".", "j", "s">>
PathManifest == <<"/", "m", "a", "n", "i", "f", "e", "s", "t", ".", "j", "s", "o", "n">>
PathLogo == <<"/", "l", "o", "g", "o", ".", "p", "n", "g">>
PathAbout == <<"/", "a", "b", "o", "u", "t">>

STATIC_ASSETS == <<PathRoot, PathIndexHtml, PathChatJs, PathManifest>>

\* the intercepted requests: method, URL path, mode
ShellRequests ==
    { [method |-> "GET",  path |-> PathIndexHtml, mode |-> "navigate"],
      [method |-> "GET",  path |-> PathAbout,     mode |-> "navigate"],
      [method |-> "GET",  path |-> PathLogo,      mode |-> "no-cors"],
      [method |-> "POST", path |-> PathLogo,      mode |-> "no-cors"],
      [method |-> "GET",  path |-> PathApiChat,   mode |-> "cors"],
      [method |-> "POST", path |-> PathApiChat,   mode |-> "cors"] }

\* a response: the URL it answers, its status and its body
NoResp == [url |-> <<>>, status |-> 0, body |-> <<"", 0>>]

\* what the network does with a request: a response (200 or 404), or a failure
NetOutcomes == {"200", "404", "fail"}

\* the response of one network fetch; every fetch yields a response of its
\* own, told apart by who fetched it: <<"fetch", h>> for the h-th fetch
\* event, <<"install", w>> for the install of version w
NetResponse(path, out, by) ==
    [url |-> path, status |-> IF out = "404" THEN 404 ELSE 200, body |-> by]

\* what the shell assets do at install time: the assets that cannot be fetched
InstallFailures == { {}, {PathManifest} }

(***************************************************************************)
(* The browser's cache storage                                             *)
(***************************************************************************)
Range(f) == {f[i] : i \in DOMAIN f}

BucketNames(cs) == {cs[i].name : i \in DOMAIN cs}

\* caches.open(name): the bucket is created when it does not exist
CachesOpen(cs, name) ==
    IF name \in BucketNames(cs) THEN cs
    ELSE Append(cs, [name |-> name, entries |-> <<>>])

\* caches.delete(name)
CachesDelete(cs, name) == SelectSeq(cs, LAMBDA b : b.name # name)

\* caches.keys(): the bucket names, in creation order
CachesKeys(cs) == [i \in DOMAIN cs |-> cs[i].name]

\* faulty variant: the new entry is added without removing the matching ones
EntriesPutAppending(entries, key, resp) ==
    Append(entries, [key |-> key, resp |-> resp])

\* cache.put(request, response) on a bucket's entries: entries matching the
\* request are removed and the new one is added
EntriesPut(entries, key, resp) ==
    Append(SelectSeq(entries, LAMBDA e : e.key # key), [key |-> key, resp |-> resp])

\* faulty variant: an entry already stored under the key is kept
CachePutIfAbsent(cs, name, key, resp) ==
    [i \in DOMAIN cs |->
        IF cs[i].name = name /\ \A j \in DOMAIN cs[i].entries : cs[i].entries[j].key # key
        THEN [cs[i] EXCEPT !.entries = Append(@, [key |-> key, resp |-> resp])]
        ELSE cs[i]]

\* cache.put on the bucket called name
CachePut(cs, name, key, resp) ==
    [i \in DOMAIN cs |->
        IF cs[i].name = name
        THEN [cs[i] EXCEPT !.entries = EntriesPut(cs[i].entries, key, resp)]
        ELSE cs[i]]

\* cache.addAll(keys) once every response arrived with an ok status: one put per key
RECURSIVE EntriesPutAll(_, _, _, _)
EntriesPutAll(entries, keys, i, by) ==
    IF i > Len(keys) THEN entries
    ELSE EntriesPutAll(EntriesPut(entries, keys[i], NetResponse(keys[i], "200", by)),
                       keys, i + 1, by)

\* cache.addAll(keys): nothing is stored unless every asset could be fetched
CacheAddAll(cs, name, keys, failed, by) ==
    IF \E i \in DOMAIN keys : keys[i] \in failed THEN cs
    ELSE [i \in DOMAIN cs |->
            IF cs[i].name = name
            THEN [cs[i] EXCEPT !.entries = EntriesPutAll(cs[i].entries, keys, 1, by)]
            ELSE cs[i]]

\* cache.match(key) on one bucket's entries, from index i on
RECURSIVE EntriesMatch(_, _, _)
EntriesMatch(entries, key, i) ==
    IF i > Len(entries) THEN NoResp
    ELSE IF entries[i].key = key THEN entries[i].resp
    ELSE EntriesMatch(entries, key, i + 1)

\* caches.match(request), from bucket i on: the buckets are searched in
\* creation order; only a GET request matches
RECURSIVE CachesMatchFrom(_, _, _, _)
CachesMatchFrom(cs, method, key, i) ==
    IF method # "GET" \/ i > Len(cs) THEN NoResp
    ELSE IF EntriesMatch(cs[i].entries, key, 1) # NoResp
         THEN EntriesMatch(cs[i].entries, key, 1)
         ELSE CachesMatchFrom(cs, method, key, i + 1)

CachesMatch(cs, method, key) == CachesMatchFrom(cs, method, key, 1)

(***************************************************************************)
(* Service worker lifecycle                                                *)
(***************************************************************************)
\* the newest version
Newest == Len(workers)

\* the version fetch events are dispatched to: the newest once activated,
\* the one before it while the newest installed, none while it activates
Active ==
    IF workers = <<>> THEN 0
    ELSE IF phase = "activated" THEN Newest
    ELSE IF phase = "install" THEN Newest - 1
    ELSE 0

\* CACHE_NAME of version w
CACHE_NAME(w) == CacheName(workers[w])

\* a new version of the worker is deployed, with the same CACHE_NAME or the next one
Deploy(n) ==
    /\ Len(workers) < MaxWorkers
    /\ workers = <<>> \/ phase = "activated"
    /\ IF workers = <<>> THEN n = 1 ELSE n \in {workers[Newest], workers[Newest] + 1}
    /\ workers' = Append(workers, n)
    /\ installed' = {}
    /\ phase' = "install"
    /\ UNCHANGED <<caches, toDelete, handlers>>
    /\ UNCHANGED edgeVars

\* the install listener: caches.open(CACHE_NAME), then
\* cache.addAll(STATIC_ASSETS).catch(() => {}); waitUntil settles, and with
\* skipWaiting() the activate event follows
Install(failed) ==
    /\ workers # <<>> /\ phase = "install"
    /\ caches' = CacheAddAll(CachesOpen(caches, CACHE_NAME(Newest)), CACHE_NAME(Newest),
                             STATIC_ASSETS, failed, <<"install", Newest>>)
    /\ installed' = Range(STATIC_ASSETS) \ failed
    /\ phase' = "keys"
    /\ UNCHANGED <<workers, toDelete, handlers>>
    /\ UNCHANGED edgeVars

\* keys.filter(k => k !== CACHE_NAME)
OldKeys(keys, name) == {k \in Range(keys) : k # name}

\* activate: caches.keys() resolves and a caches.delete is issued per old key
ActivateKeys ==
    /\ workers # <<>> /\ phase = "keys"
    /\ toDelete' = OldKeys(CachesKeys(caches), CACHE_NAME(Newest))
    /\ phase' = "delete"
    /\ UNCHANGED <<workers, caches, installed, handlers>>
    /\ UNCHANGED edgeVars

\* a handler that holds the bucket called name loses it when the bucket is deleted
Orphaned(h, name) ==
    IF h.write = "put" /\ CACHE_NAME(h.w) = name THEN [h EXCEPT !.write = "orphan"] ELSE h

\* activate: one caches.delete(k) completes
ActivateDelete(k) ==
    /\ workers # <<>> /\ phase = "delete"
    /\ k \in toDelete
    /\ caches' = CachesDelete(caches, k)
    /\ toDelete' = toDelete \ {k}
    /\ handlers' = [i \in DOMAIN handlers |-> Orphaned(handlers[i], k)]
    /\ UNCHANGED <<workers, phase, installed>>
    /\ UNCHANGED edgeVars

\* activate: Promise.all resolves, waitUntil settles; clients.claim()
ActivateDone ==
    /\ workers # <<>> /\ phase = "delete"
    /\ toDelete = {}
    /\ phase' = "activated"
    /\ UNCHANGED <<workers, caches, toDelete, installed, handlers>>
    /\ UNCHANGED edgeVars

(***************************************************************************)
(* Service worker fetch listener                                           *)
(***************************************************************************)
NoResult == [kind |-> "pending", resp |-> NoResp]

\* faulty variant: equality in place of the prefix test
IsApiRequestExact(path) == path = PathApiPrefix

\* url.pathname.startsWith('/api/')
IsApiRequest(path) == StartsWith(path, PathApiPrefix)

\* the fetch listener runs for a request: respondWith is given fetch(request)
\* for an API path and caches.match(request) otherwise
Dispatch(req) ==
    /\ Active # 0
    /\ handlers' = Append(handlers,
          [w |-> Active, req |-> req,
           pc |-> IF IsApiRequest(req.path) THEN "apiNetwork" ELSE "match",
           result |-> NoResult, clone |-> NoResp, write |-> "none",
           reads |-> 0, fetches |-> 0])
    /\ UNCHANGED <<workers, phase, caches, toDelete, installed>>
    /\ UNCHANGED edgeVars

\* a fetch event is dispatched to the active version
FetchEvent(req) ==
    /\ Len(handlers) < MaxEvents
    /\ Dispatch(req)

\* requests for one asset that is not part of the shell
RaceRequests == { [method |-> "GET", path |-> PathLogo, mode |-> "no-cors"] }

\* a fetch event for the raced asset is dispatched to the active version
RaceFetchEvent(req) ==
    /\ Len(handlers) < MaxRacers
    /\ Dispatch(req)

\* event.respondWith(fetch(event.request)) settles
ApiNetwork(h, out) ==
    /\ h \in DOMAIN handlers /\ handlers[h].pc = "apiNetwork"
    /\ handlers' = [handlers EXCEPT ![h] =
          [@ EXCEPT !.pc = "settled", !.fetches = @ + 1,
                    !.result = IF out = "fail"
                               THEN [kind |-> "rejected", resp |-> NoResp]
                               ELSE [kind |-> "response",
                                     resp |-> NetResponse(handlers[h].req.path, out,
                                                          <<"fetch", h>>)]]]
    /\ UNCHANGED <<workers, phase, caches, toDelete, installed>>
    /\ UNCHANGED edgeVars

\* faulty variant: a cache hit is answered and revalidated over the network
MatchRevalidating(h) ==
    /\ h \in DOMAIN handlers /\ handlers[h].pc = "match"
    /\ LET cached == CachesMatch(caches, handlers[h].req.method, handlers[h].req.path) IN
       handlers' = [handlers EXCEPT ![h] =
          IF cached # NoResp
          THEN [@ EXCEPT !.pc = "settled", !.reads = @ + 1, !.fetches = @ + 1,
                         !.clone = NetResponse(handlers[h].req.path, "200", <<"fetch", h>>),
                         !.write = "open",
                         !.result = [kind |-> "response", resp |-> cached]]
          ELSE [@ EXCEPT !.pc = "network", !.reads = @ + 1]]
    /\ UNCHANGED <<workers, phase, caches, toDelete, installed>>
    /\ UNCHANGED edgeVars

\* caches.match(event.request).then(cached => { if (cached) return cached; ... })
Match(h) ==
    /\ h \in DOMAIN handlers /\ handlers[h].pc = "match"
    /\ LET cached == CachesMatch(caches, handlers[h].req.method, handlers[h].req.path) IN
       handlers' = [handlers EXCEPT ![h] =
          IF cached # NoResp
          THEN [@ EXCEPT !.pc = "settled", !.reads = @ + 1,
                         !.result = [kind |-> "response", resp |-> cached]]
          ELSE [@ EXCEPT !.pc = "network", !.reads = @ + 1]]
    /\ UNCHANGED <<workers, phase, caches, toDelete, installed>>
    /\ UNCHANGED edgeVars

\* faulty variant: the status is not looked at
ShouldCacheAnyStatus(method, status) == method = "GET"

\* event.request.method === 'GET' && response.status === 200
ShouldCache(method, status) == method = "GET" /\ status = 200

\* faulty variant: the catch handler falls back whatever the request mode
NetworkFallbackAlways(h, out) ==
    /\ h \in DOMAIN handlers /\ handlers[h].pc = "network"
    /\ LET req == handlers[h].req
           resp == NetResponse(req.path, out, <<"fetch", h>>)
       IN handlers' = [handlers EXCEPT ![h] =
            IF out = "fail"
            THEN [@ EXCEPT !.pc = "fallback", !.fetches = @ + 1]
            ELSE IF ShouldCache(req.method, resp.status)
                 THEN [@ EXCEPT !.pc = "settled", !.fetches = @ + 1,
                                !.clone = resp, !.write = "open",
                                !.result = [kind |-> "response", resp |-> resp]]
                 ELSE [@ EXCEPT !.pc = "settled", !.fetches = @ + 1,
                                !.result = [kind |-> "response", resp |-> resp]]]
    /\ UNCHANGED <<workers, phase, caches, toDelete, installed>>
    /\ UNCHANGED edgeVars

\* faulty variant: the response is held back until the cache write is over
NetworkAwaitingWrite(h, out) ==
    /\ h \in DOMAIN handlers /\ handlers[h].pc = "network"
    /\ LET req == handlers[h].req
           resp == NetResponse(req.path, out, <<"fetch", h>>)
       IN handlers' = [handlers EXCEPT ![h] =
            IF out = "fail"
            THEN IF req.mode = "navigate"
                 THEN [@ EXCEPT !.pc = "fallback", !.fetches = @ + 1]
                 ELSE [@ EXCEPT !.pc = "settled", !.fetches = @ + 1,
                                !.result = [kind |-> "undefined", resp |-> NoResp]]
            ELSE IF ShouldCache(req.method, resp.status)
                 THEN [@ EXCEPT !.pc = "writing", !.fetches = @ + 1,
                                !.clone = resp, !.write = "open"]
                 ELSE [@ EXCEPT !.pc = "settled", !.fetches = @ + 1,
                                !.result = [kind |-> "response", resp |-> resp]]]
    /\ UNCHANGED <<workers, phase, caches, toDelete, installed>>
    /\ UNCHANGED edgeVars

\* fetch(event.request).then(response => {...}).catch(() => {...})
Network(h, out) ==
    /\ h \in DOMAIN handlers /\ handlers[h].pc = "network"
    /\ LET req == handlers[h].req
           resp == NetResponse(req.path, out, <<"fetch", h>>)
       IN handlers' = [handlers EXCEPT ![h] =
            IF out = "fail"
            THEN IF req.mode = "navigate"
                 THEN [@ EXCEPT !.pc = "fallback", !.fetches = @ + 1]
                 ELSE [@ EXCEPT !.pc = "settled", !.fetches = @ + 1,
                                !.result = [kind |-> "undefined", resp |-> NoResp]]
            ELSE IF ShouldCache(req.method, resp.status)
                 THEN [@ EXCEPT !.pc = "settled", !.fetches = @ + 1,
                                !.clone = resp, !.write = "open",
                                !.result = [kind |-> "response", resp |-> resp]]
                 ELSE [@ EXCEPT !.pc = "settled", !.fetches = @ + 1,
                                !.result = [kind |-> "response", resp |-> resp]]]
    /\ UNCHANGED <<workers, phase, caches, toDelete, installed>>
    /\ UNCHANGED edgeVars

\* faulty variant: the fallback looks up '/' instead of '/index.html'
FallbackRoot(h) ==
    /\ h \in DOMAIN handlers /\ handlers[h].pc = "fallback"
    /\ LET cached == CachesMatch(caches, "GET", PathRoot) IN
       handlers' = [handlers EXCEPT ![h] =
          [@ EXCEPT !.pc = "settled", !.reads = @ + 1,
                    !.result = IF cached # NoResp
                               THEN [kind |-> "response", resp |-> cached]
                               ELSE [kind |-> "undefined", resp |-> NoResp]]]
    /\ UNCHANGED <<workers, phase, caches, toDelete, installed>>
    /\ UNCHANGED edgeVars

\* return caches.match('/index.html')
Fallback(h) ==
    /\ h \in DOMAIN handlers /\ handlers[h].pc = "fallback"
    /\ LET cached == CachesMatch(caches, "GET", PathIndexHtml) IN
       handlers' = [handlers EXCEPT ![h] =
          [@ EXCEPT !.pc = "settled", !.reads = @ + 1,
                    !.result = IF cached # NoResp
                               THEN [kind |-> "response", resp |-> cached]
                               ELSE [kind |-> "undefined", resp |-> NoResp]]]
    /\ UNCHANGED <<workers, phase, caches, toDelete, installed>>
    /\ UNCHANGED edgeVars

\* the detached write: caches.open(CACHE_NAME) resolves
WriteOpen(h) ==
    /\ h \in DOMAIN handlers /\ handlers[h].write = "open"
    /\ caches' = CachesOpen(caches, CACHE_NAME(handlers[h].w))
    /\ handlers' = [handlers EXCEPT ![h].write = "put"]
    /\ UNCHANGED <<workers, phase, toDelete, installed>>
    /\ UNCHANGED edgeVars

\* the detached write: cache.put(event.request, clone) completes; a bucket
\* deleted since it was opened is no longer in the storage
WritePut(h) ==
    /\ h \in DOMAIN handlers /\ handlers[h].write \in {"put", "orphan"}
    /\ caches' = IF handlers[h].write = "put"
                 THEN CachePut(caches, CACHE_NAME(handlers[h].w),
                               handlers[h].req.path, handlers[h].clone)
                 ELSE caches
    /\ handlers' = [handlers EXCEPT ![h].write = "done"]
    /\ UNCHANGED <<workers, phase, toDelete, installed>>
    /\ UNCHANGED edgeVars

\* the detached write: caches.open or cache.put rejects (nothing handles it)
WriteFail(h) ==
    /\ h \in DOMAIN handlers /\ handlers[h].write \in {"open", "put", "orphan"}
    /\ handlers' = [handlers EXCEPT ![h].write = "failed"]
    /\ UNCHANGED <<workers, phase, caches, toDelete, installed>>
    /\ UNCHANGED edgeVars

ShellInit ==
    /\ workers = <<>>
    /\ phase = "none"
    /\ caches = <<>>
    /\ toDelete = {}
    /\ installed = {}
    /\ handlers = <<>>

Init == EdgeInit /\ ShellInit

ShellNext ==
    \/ \E n \in 1..MaxWorkers : Deploy(n)
    \/ \E failed \in InstallFailures : Install(failed)
    \/ ActivateKeys
    \/ \E k \in toDelete : ActivateDelete(k)
    \/ ActivateDone
    \/ \E req \in ShellRequests : FetchEvent(req)
    \/ \E h \in 1..MaxEvents, out \in NetOutcomes : ApiNetwork(h, out)
    \/ \E h \in 1..MaxEvents : Match(h)
    \/ \E h \in 1..MaxEvents, out \in NetOutcomes : Network(h, out)
    \/ \E h \in 1..MaxEvents : Fallback(h)
    \/ \E h \in 1..MaxEvents : WriteOpen(h)
    \/ \E h \in 1..MaxEvents : WritePut(h)
    \/ \E h \in 1..MaxEvents : WriteFail(h)

\* the service worker receiving only requests for one asset
RaceNext ==
    \/ \E n \in 1..MaxWorkers : Deploy(n)
    \/ \E failed \in InstallFailures : Install(failed)
    \/ ActivateKeys
    \/ \E k \in toDelete : ActivateDelete(k)
    \/ ActivateDone
    \/ \E req \in RaceRequests : RaceFetchEvent(req)
    \/ \E h \in 1..MaxRacers : Match(h)
    \/ \E h \in 1..MaxRacers, out \in NetOutcomes : Network(h, out)
    \/ \E h \in 1..MaxRacers : WriteOpen(h)
    \/ \E h \in 1..MaxRacers : WritePut(h)
    \/ \E h \in 1..MaxRacers : WriteFail(h)

SpecRouter == Init /\ [][RouterNext]_vars

SpecShell == Init /\ [][ShellNext]_vars

SpecRace == Init /\ [][RaceNext]_vars

(***************************************************************************)
(* Properties of the request router and the chat relay (under SpecRouter)  *)
(***************************************************************************)
\* the request being answered is a POST to /api/chat
ChatPostAnswered ==
    /\ edgePc = "responded"
    /\ request.method = "POST"
    /\ request.url.path = PathApiChat

\* the body is a JSON object whose messages property is an array
BodyHasList == request.body.kind = "object" /\ request.body.messages.kind = "array"

BodyList == request.body.messages.items

ListHasSystem(items) == \E i \in 1..Len(items) : items[i].role = "system"

ListAllObjects(items) == \A i \in 1..Len(items) : items[i].kind = "object"

\* C1: for a POST /api/chat whose message list has no system entry, the list
\* passed to inference is the default system message followed by the
\* request's entries in their order; inference is called once when every
\* entry is a message object.
C1_DefaultSystemFirst ==
    (ChatPostAnswered /\ BodyHasList /\ ~ListHasSystem(BodyList)) =>
        /\ \A i \in 1..Len(aiCalls) :
              /\ Len(aiCalls[i].args.messages) = Len(BodyList) + 1
              /\ aiCalls[i].args.messages[1] =
                    [kind |-> "object", role |-> "system", content |-> SYSTEM_PROMPT]
              /\ \A j \in 1..Len(BodyList) :
                    aiCalls[i].args.messages[j + 1] = BodyList[j]
        /\ ListAllObjects(BodyList) => Len(aiCalls) = 1

C1_Witness ==
    /\ ChatPostAnswered /\ BodyHasList /\ ~ListHasSystem(BodyList)
    /\ Len(BodyList) = 2 /\ BodyList[1] # BodyList[2]
    /\ Len(aiCalls) = 1

\* C2: for a POST /api/chat whose message list holds a system entry at any
\* position, the list passed to inference is exactly the request's list;
\* inference is called once when every entry is a message object.
C2_ListWithSystemUnchanged ==
    (ChatPostAnswered /\ BodyHasList /\ ListHasSystem(BodyList)) =>
        /\ \A i \in 1..Len(aiCalls) : aiCalls[i].args.messages = BodyList
        /\ ListAllObjects(BodyList) => Len(aiCalls) = 1

C2_Witness ==
    /\ ChatPostAnswered /\ BodyHasList
    /\ Len(BodyList) = 2 /\ BodyList[1].role = "user" /\ BodyList[2].role = "system"
    /\ Len(aiCalls) = 1

\* the fixed error: status 500, the JSON error body, content-type application/json
IsFixedError(r) ==
    /\ r.status = 500
    /\ r.body = "{\"error\":\"Failed to process request\"}"
    /\ r.headers = {<<"content-type", "application/json">>}

\* C3 as stated: a POST /api/chat whose body is malformed JSON or JSON that
\* is not an object (null, a number, a string, an array) is answered with
\* the fixed 500 error and inference is not invoked.
C3_NonObjectBodyFails ==
    (ChatPostAnswered
        /\ request.body.kind \in {"malformed", "null", "number", "string", "array"}) =>
        IsFixedError(response) /\ aiCalls = <<>>

\* C3 amended: a POST /api/chat whose body is malformed JSON or JSON null is
\* answered with the fixed 500 error and inference is not invoked; a body
\* that is a JSON number, string, boolean or array has no messages property,
\* so the list defaults to empty and inference is invoked once with only the
\* default system message.
C3_MalformedOrNullFails ==
    /\ (ChatPostAnswered /\ request.body.kind \in {"malformed", "null"}) =>
          IsFixedError(response) /\ aiCalls = <<>>
    /\ (ChatPostAnswered
          /\ request.body.kind \in {"number", "string", "boolean", "array"}) =>
          /\ Len(aiCalls) = 1
          /\ aiCalls[1].args.messages =
                <<[kind |-> "object", role |-> "system", content |-> SYSTEM_PROMPT]>>
          /\ aiCalls[1].returned # "throw" => response.status = 200

C3_Witness ==
    /\ ChatPostAnswered /\ request.body.kind = "null"
    /\ IsFixedError(response)

C3_WitnessNumberBody ==
    /\ ChatPostAnswered /\ request.body.kind = "number"
    /\ Len(aiCalls) = 1 /\ response.status = 200

\* the success response: status 200, the given stream as body, the SSE headers
IsStreamOf(r, stream) ==
    /\ r.status = 200
    /\ r.body = stream
    /\ r.headers = { <<"content-type", "text/event-stream; charset=utf-8">>,
                     <<"cache-control", "no-cache">>,
                     <<"connection", "keep-alive">> }

\* inference was invoked and returned a stream
InferenceSucceeded == Len(aiCalls) = 1 /\ aiCalls[1].returned # "throw"

\* C4: a POST /api/chat is answered with the collaborator's stream (200, SSE
\* headers) exactly when the body parsed and the inference call succeeded,
\* and with the fixed 500 error otherwise, whether parsing or inference failed.
C4_StreamOrFixedError ==
    ChatPostAnswered =>
        /\ Len(aiCalls) <= 1
        /\ InferenceSucceeded => request.body.kind # "malformed"
        /\ InferenceSucceeded => IsStreamOf(response, aiCalls[1].returned)
        /\ ~InferenceSucceeded => IsFixedError(response)

C4_Witness ==
    /\ ChatPostAnswered
    /\ InferenceSucceeded
    /\ response.body = "stream-2"

C4_WitnessInferenceFailed ==
    /\ ChatPostAnswered
    /\ Len(aiCalls) = 1 /\ aiCalls[1].returned = "throw"
    /\ IsFixedError(response)

\* the paths that are "/" or do not begin with "/api/"
StaticPaths ==
    { PathRoot, PathIndexHtml, <<"/", "a", "p", "i">>, <<"/", "a", "p", "i", "x">> }

\* C5: a request whose path is "/" or does not begin with "/api/" (any
\* method) is answered with exactly what the static-asset collaborator
\* returned for that request; neither the relay nor inference is invoked.
C5_StaticPassThrough ==
    (edgePc = "responded" /\ request.url.path \in StaticPaths) =>
        /\ assetCalls = <<[request |-> request, returned |-> response]>>
        /\ response \in AssetResponses
        /\ relayCalls = 0
        /\ aiCalls = <<>>

C5_Witness ==
    /\ edgePc = "responded"
    /\ request.url.path = <<"/", "a", "p", "i", "x">>
    /\ request.method = "POST"
    /\ Len(assetCalls) = 1 /\ response.status = 404

\* C6: a request to exactly /api/chat with a method other than POST is
\* answered 405 "Method not allowed"; the body is not read and no
\* collaborator is invoked.
C6_MethodNotAllowed ==
    (edgePc = "responded" /\ request.url.path = PathApiChat /\ request.method # "POST") =>
        /\ response.status = 405
        /\ response.body = "Method not allowed"
        /\ jsonReads = 0
        /\ relayCalls = 0
        /\ aiCalls = <<>>
        /\ assetCalls = <<>>

C6_Witness ==
    /\ edgePc = "responded" /\ request.url.path = PathApiChat
    /\ request.method = "PUT" /\ request.url.query = "?q=1"
    /\ response.status = 405

\* the paths that begin with "/api/" and are not "/api/chat"
OtherApiPaths ==
    { PathApiPrefix,
      <<"/", "a", "p", "i", "/", "c", "h", "a", "t", "/">>,
      <<"/", "a", "p", "i", "/", "u", "n", "k", "n", "o", "w", "n">> }

\* C7: a request whose path begins with "/api/" and is not "/api/chat" is
\* answered 404 "Not found" whatever the method; no collaborator is invoked.
C7_NotFound ==
    (edgePc = "responded" /\ request.url.path \in OtherApiPaths) =>
        /\ response.status = 404
        /\ response.body = "Not found"
        /\ jsonReads = 0
        /\ relayCalls = 0
        /\ aiCalls = <<>>
        /\ assetCalls = <<>>

C7_Witness ==
    /\ edgePc = "responded"
    /\ request.url.path = <<"/", "a", "p", "i", "/", "c", "h", "a", "t", "/">>
    /\ request.method = "POST"
    /\ response.status = 404

\* the indices of the system entries of a list
SystemIndices(items) == {i \in 1..Len(items) : items[i].role = "system"}

\* C11 as stated: every list passed to inference holds at most one system
\* entry, and a system entry it holds is its first entry.
C11_AtMostOneLeadingSystem ==
    \A i \in 1..Len(aiCalls) :
        /\ Cardinality(SystemIndices(aiCalls[i].args.messages)) <= 1
        /\ SystemIndices(aiCalls[i].args.messages) \subseteq {1}

\* C11 amended: every list passed to inference holds at least one system
\* entry. When the request's list holds none, the passed list holds exactly
\* one, the default, at index 0; when the request's list holds system
\* entries, they are passed where they are, however many and wherever.
C11_SystemPresentNotNormalised ==
    \A i \in 1..Len(aiCalls) :
        /\ SystemIndices(aiCalls[i].args.messages) # {}
        /\ (BodyHasList /\ SystemIndices(BodyList) = {}) =>
              /\ SystemIndices(aiCalls[i].args.messages) = {1}
              /\ aiCalls[i].args.messages[1].content = SYSTEM_PROMPT
        /\ (BodyHasList /\ SystemIndices(BodyList) # {}) =>
              SystemIndices(aiCalls[i].args.messages) = SystemIndices(BodyList)

C11_Witness ==
    /\ ChatPostAnswered /\ BodyHasList
    /\ Len(aiCalls) = 1
    /\ SystemIndices(aiCalls[1].args.messages) = {2}

C11_WitnessTwoSystems ==
    /\ ChatPostAnswered /\ BodyHasList
    /\ Len(aiCalls) = 1
    /\ SystemIndices(aiCalls[1].args.messages) = {1, 2}

\* the body gives a list the relay can scan: valid JSON other than null whose
\* messages property is absent or an array
BodyUsable ==
    /\ request.body.kind \notin {"malformed", "null", "none"}
    /\ request.body.messages.kind \in {"undefined", "array"}

\* C19: inference is invoked at most once per request, also when it fails;
\* it is invoked only for a POST to exactly /api/chat whose body gave a
\* usable list; it receives max_tokens 1024 and stream true.
C19_InferenceAtMostOnce ==
    /\ Len(aiCalls) <= 1
    /\ aiCalls # <<>> =>
          /\ request.method = "POST"
          /\ request.url.path = PathApiChat
          /\ BodyUsable
          /\ relayCalls = 1 /\ jsonReads = 1
          /\ aiCalls[1].args.max_tokens = 1024
          /\ aiCalls[1].args.stream = TRUE
          /\ aiCalls[1].args.model = "@cf/meta/llama-3.1-8b-instruct-fp8"

C19_Witness ==
    /\ edgePc = "responded"
    /\ Len(aiCalls) = 1 /\ aiCalls[1].returned = "throw"
    /\ response.status = 500

(***************************************************************************)
(* Properties of the offline cache shell (under SpecShell)                 *)
(***************************************************************************)
\* every entry of every bucket, with its bucket's name
AllEntries ==
    UNION { { [bucket |-> caches[i].name, key |-> caches[i].entries[j].key,
               resp |-> caches[i].entries[j].resp] : j \in DOMAIN caches[i].entries }
            : i \in DOMAIN caches }

\* C8: a fetch event whose path starts with "/api/" goes to the network and
\* makes no cache read and no cache write, whatever the method, the network
\* outcome and the cache contents; no bucket ever holds an entry keyed by an
\* "/api/" URL.
C8_ApiBypassesCache ==
    /\ \A h \in DOMAIN handlers :
          StartsWith(handlers[h].req.path, <<"/", "a", "p", "i", "/">>) =>
             /\ handlers[h].reads = 0
             /\ handlers[h].write = "none"
             /\ handlers[h].pc = "settled" =>
                   /\ handlers[h].fetches = 1
                   /\ handlers[h].result.kind \in {"response", "rejected"}
                   /\ handlers[h].result.kind = "response" =>
                         handlers[h].result.resp.body = <<"fetch", h>>
    /\ \A e \in AllEntries : ~StartsWith(e.key, <<"/", "a", "p", "i", "/">>)

C8_Witness ==
    \E h \in DOMAIN handlers :
        /\ handlers[h].req.path = PathApiChat
        /\ handlers[h].req.method = "POST"
        /\ handlers[h].pc = "settled"
        /\ handlers[h].result.kind = "response"
        /\ \E e \in AllEntries : e.key = PathIndexHtml

\* the bucket entries holding the root document, /index.html
IndexEntries == {e \in AllEntries : e.key = PathIndexHtml}

\* handler h leaves the navigation fallback in this step
FallbackSettles(h) ==
    /\ h \in DOMAIN handlers
    /\ handlers[h].pc = "fallback"
    /\ handlers'[h].pc = "settled"

\* C9: a navigation request to a non-API path that missed the cache and
\* whose network fetch failed is answered with the cached root document
\* (/index.html) when a bucket holds it: not with an error, not with nothing.
C9_NavigationFallsBackToRoot ==
    [][\A h \in DOMAIN handlers :
          (FallbackSettles(h) /\ IndexEntries # {}) =>
              /\ handlers'[h].result.kind = "response"
              /\ \E e \in IndexEntries : handlers'[h].result.resp = e.resp
              /\ handlers'[h].result.resp.url = PathIndexHtml]_vars

C9_Witness ==
    \E h \in DOMAIN handlers :
        /\ handlers[h].req.mode = "navigate"
        /\ handlers[h].req.path = PathAbout
        /\ handlers[h].pc = "settled"
        /\ handlers[h].reads = 2 /\ handlers[h].fetches = 1
        /\ handlers[h].result.kind = "response"
        /\ handlers[h].result.resp.url = PathIndexHtml
        /\ handlers[h].result.resp.status = 200

\* C10: when the activate listener's cleanup completes, no bucket other than
\* the current version's is left in the storage, and the current version's
\* bucket has not been deleted by the activation.
C10_OnlyCurrentBucketAfterActivate ==
    [][(phase = "delete" /\ phase' = "activated") =>
          /\ BucketNames(caches') \subseteq {CACHE_NAME(Newest)}
          /\ CACHE_NAME(Newest) \in BucketNames(caches) =>
                CACHE_NAME(Newest) \in BucketNames(caches')]_vars

\* handler h, for a request that is neither an API call nor a navigation,
\* missed the cache and its network fetch failed
FailedNonNavigate(h) ==
    /\ ~IsApiRequest(handlers[h].req.path)
    /\ handlers[h].req.mode # "navigate"
    /\ handlers[h].pc = "settled"
    /\ handlers[h].fetches = 1
    /\ handlers[h].result.kind # "response"

\* C12 as stated: a non-navigation request to a non-API path that missed the
\* cache and whose network fetch failed gets no fallback, and the promise
\* handed to respondWith rejects with the failure.
C12_FailureSurfacesAsRejection ==
    \A h \in DOMAIN handlers :
        FailedNonNavigate(h) =>
            /\ handlers[h].reads = 1
            /\ handlers[h].result.kind = "rejected"

\* C12: a non-navigation request to a non-API path that missed the cache and
\* whose network fetch failed gets no fallback: no second cache lookup is
\* made and nothing is written; the catch handler returns nothing, so the
\* promise handed to respondWith resolves with undefined instead of
\* rejecting with the failure.
C12_FailureResolvesUndefined ==
    \A h \in DOMAIN handlers :
        (~IsApiRequest(handlers[h].req.path) /\ handlers[h].req.mode # "navigate") =>
            /\ handlers[h].pc # "fallback"
            /\ handlers[h].reads <= 1
            /\ FailedNonNavigate(h) =>
                  /\ handlers[h].reads = 1
                  /\ handlers[h].write = "none"
                  /\ handlers[h].result = [kind |-> "undefined", resp |-> NoResp]

C12_Witness ==
    \E h \in DOMAIN handlers :
        /\ FailedNonNavigate(h)
        /\ handlers[h].req.path = PathLogo
        /\ handlers[h].req.method = "GET"
        /\ handlers[h].result.kind = "undefined"
        /\ \E e \in AllEntries : e.key = PathIndexHtml

\* the entries of the bucket called name (none when there is no such bucket)
BucketEntries(cs, name) ==
    IF \E i \in DOMAIN cs : cs[i].name = name
    THEN cs[CHOOSE i \in DOMAIN cs : cs[i].name = name].entries
    ELSE <<>>

\* the request URLs an entry sequence holds
KeysOf(entries) == {entries[i].key : i \in DOMAIN entries}

\* C13: installation goes on to activation whatever the shell assets do, and
\* when one of them cannot be fetched the others are still stored: every
\* shell asset that could be fetched has an entry in the version's bucket.
C13_PartialPopulation ==
    (workers # <<>> /\ phase \in {"keys", "delete", "activated"}) =>
        installed \subseteq KeysOf(BucketEntries(caches, CACHE_NAME(Newest)))

\* handler h is answered from the cache in this step
HitSettles(h) ==
    /\ h \in DOMAIN handlers
    /\ handlers[h].pc = "match"
    /\ handlers'[h].pc = "settled"

\* handler h was answered from the cache
HitSettled(h) ==
    /\ ~IsApiRequest(handlers[h].req.path)
    /\ handlers[h].pc = "settled"
    /\ handlers[h].reads = 1 /\ handlers[h].fetches = 0

\* a hit returns a stored response as it is, fetches nothing and writes
\* nothing, in that step and in every later one
HitIsVerbatim ==
    \A h \in DOMAIN handlers :
        /\ HitSettles(h) =>
              /\ \E e \in AllEntries :
                    /\ e.key = handlers[h].req.path
                    /\ handlers'[h].result = [kind |-> "response", resp |-> e.resp]
              /\ handlers'[h].fetches = 0
              /\ handlers'[h].write = "none"
              /\ caches' = caches
        /\ HitSettled(h) => handlers'[h] = handlers[h]

\* entry e is replaced in this step by a whole response written under its URL:
\* by the install listener's addAll or by a handler's cache.put
ReplacedWhole(e) ==
    \E f \in AllEntries' :
        /\ f.bucket = e.bucket /\ f.key = e.key
        /\ \/ /\ phase = "install" /\ phase' = "keys"
              /\ f.resp = NetResponse(e.key, "200", <<"install", Newest>>)
           \/ \E h \in DOMAIN handlers :
                 /\ handlers[h].write = "put" /\ handlers'[h].write = "done"
                 /\ f.resp = handlers[h].clone

\* C14 as stated: a cache hit returns the stored response verbatim with no
\* network fetch and no cache write, and an entry, once stored, stays as it
\* is (and is what later requests get) until its bucket is deleted.
C14_EntryKeptUntilBucketDeleted ==
    [][/\ HitIsVerbatim
       /\ \A e \in AllEntries :
             e \in AllEntries' \/ e.bucket \notin BucketNames(caches')]_vars

\* C14: a non-API request that hits the cache is answered with a stored
\* response verbatim, with no network fetch and no cache write, then or
\* later; a stored entry is never modified in place: it stays as it is until
\* its bucket is deleted or a later write under the same URL (a re-run
\* install, a cache-miss write) replaces it with another whole response.
C14_HitVerbatimUntilReplaced ==
    [][/\ HitIsVerbatim
       /\ \A e \in AllEntries :
             \/ e \in AllEntries'
             \/ e.bucket \notin BucketNames(caches')
             \/ ReplacedWhole(e)]_vars

C14_Witness ==
    \E h \in DOMAIN handlers :
        /\ HitSettled(h)
        /\ handlers[h].req.path = PathIndexHtml
        /\ handlers[h].result.kind = "response"
        /\ handlers[h].result.resp.body = <<"install", 1>>
        /\ workers = <<1, 1>>
        /\ \E e \in AllEntries :
              e.key = PathIndexHtml /\ e.resp.body = <<"install", 2>>

\* handler h missed the cache and was answered with the network's response
MissAnswered(h) ==
    /\ ~IsApiRequest(handlers[h].req.path)
    /\ handlers[h].pc = "settled"
    /\ handlers[h].reads = 1 /\ handlers[h].fetches = 1
    /\ handlers[h].result.kind = "response"

\* C15: on a cache miss of a non-API request answered by the network, a
\* clone of the response is written to the bucket of the handler's version
\* if and only if the method is GET and the status is 200; otherwise no
\* cache write is made; the caller gets the live response in both cases, and
\* no other handler writes to the cache.
C15_CloneStoredIffGet200 ==
    /\ \A h \in DOMAIN handlers :
          /\ handlers[h].write # "none" => MissAnswered(h)
          /\ MissAnswered(h) =>
                /\ handlers[h].write # "none" <=>
                       (handlers[h].req.method = "GET" /\ handlers[h].result.resp.status = 200)
                /\ handlers[h].write # "none" => handlers[h].clone = handlers[h].result.resp
                /\ handlers[h].write = "none" => handlers[h].clone = NoResp
                /\ handlers[h].result.resp.url = handlers[h].req.path
                /\ handlers[h].result.resp.body = <<"fetch", h>>
    /\ \A e \in AllEntries :
          e.resp.body[1] = "fetch" =>
              LET h == e.resp.body[2] IN
              /\ handlers[h].req.method = "GET" /\ e.resp.status = 200
              /\ e.key = handlers[h].req.path
              /\ e.bucket = CACHE_NAME(handlers[h].w)
              /\ e.resp = handlers[h].clone
              /\ handlers[h].write = "done"

C15_Witness ==
    \E h \in DOMAIN handlers :
        /\ MissAnswered(h)
        /\ handlers[h].req.method = "GET" /\ handlers[h].req.path = PathLogo
        /\ handlers[h].write = "done"
        /\ \E e \in AllEntries :
              /\ e.key = PathLogo /\ e.bucket = CACHE_NAME(handlers[h].w)
              /\ e.resp = handlers[h].result.resp

C15_WitnessNotStored ==
    \E h \in DOMAIN handlers :
        /\ MissAnswered(h)
        /\ handlers[h].req.method = "GET" /\ handlers[h].result.resp.status = 404
        /\ handlers[h].write = "none"

\* the install listener's population of the bucket completes in this step
InstallStep == phase = "install" /\ phase' = "keys"

\* no bucket holds two entries for one request URL
NoDuplicates(cs) ==
    \A i \in DOMAIN cs : Len(cs[i].entries) = Cardinality(KeysOf(cs[i].entries))

\* C16: when the install listener runs against a bucket of the same version
\* name that already holds the shell assets, the bucket afterwards holds the
\* same request URLs as before, one entry per URL: nothing is duplicated, and
\* the shell entries are the responses of the successful run.
C16_InstallIdempotent ==
    [][(InstallStep /\ NoDuplicates(caches)
          /\ Range(STATIC_ASSETS) \subseteq KeysOf(BucketEntries(caches, CACHE_NAME(Newest)))) =>
          /\ KeysOf(BucketEntries(caches', CACHE_NAME(Newest)))
                = KeysOf(BucketEntries(caches, CACHE_NAME(Newest)))
          /\ Len(BucketEntries(caches', CACHE_NAME(Newest)))
                = Len(BucketEntries(caches, CACHE_NAME(Newest)))
          /\ NoDuplicates(caches')
          /\ \A j \in DOMAIN BucketEntries(caches', CACHE_NAME(Newest)) :
                LET e == BucketEntries(caches', CACHE_NAME(Newest))[j] IN
                (e.key \in Range(STATIC_ASSETS) /\ installed' = Range(STATIC_ASSETS)) =>
                    e.resp = NetResponse(e.key, "200", <<"install", Newest>>)]_vars

C16_Witness ==
    /\ workers = <<1, 1>>
    /\ phase = "keys"
    /\ installed = Range(STATIC_ASSETS)
    /\ Len(BucketEntries(caches, CacheName(1))) = Len(STATIC_ASSETS)
    /\ \A j \in 1..Len(STATIC_ASSETS) :
          BucketEntries(caches, CacheName(1))[j].resp.body = <<"install", 2>>

\* C17: the cache write of a miss is detached from the response: a write is
\* pending only for a handler that has already delivered the live response,
\* and a delivered response never changes afterwards, whether the write
\* succeeds, fails or never completes.
C17_WriteDetachedFromResponse ==
    [][\A h \in DOMAIN handlers :
          /\ handlers[h].pc = "settled" =>
                /\ handlers'[h].pc = "settled"
                /\ handlers'[h].result = handlers[h].result
          /\ handlers'[h].write # "none" =>
                /\ handlers'[h].pc = "settled"
                /\ handlers'[h].result = [kind |-> "response", resp |-> handlers'[h].clone]
                /\ handlers'[h].clone.body = <<"fetch", h>>]_vars

C17_Witness ==
    \E h \in DOMAIN handlers :
        /\ MissAnswered(h)
        /\ handlers[h].write = "open"
        /\ handlers[h].result.resp.status = 200
        /\ \A e \in AllEntries : e.key # handlers[h].req.path

C17_WitnessWriteFailed ==
    \E h \in DOMAIN handlers :
        /\ MissAnswered(h)
        /\ handlers[h].write = "failed"
        /\ handlers[h].result.resp = handlers[h].clone
        /\ \A e \in AllEntries : e.key # handlers[h].req.path

\* C20: once the activation cleanup of a version has completed, no bucket of
\* a prior version exists, whatever the superseded version's handlers still
\* have pending.
C20_NoPriorBucketOnceActivated ==
    (workers # <<>> /\ phase = "activated") =>
        BucketNames(caches) \subseteq {CACHE_NAME(Newest)}

(***************************************************************************)
(* Properties of racing requests for one asset (under SpecRace)            *)
(***************************************************************************)
\* the entries stored under the raced asset's URL
RacedEntries == {e \in AllEntries : e.key = PathLogo}

\* handler h's cache.put completes in this step
PutStep(h) ==
    /\ h \in DOMAIN handlers
    /\ handlers[h].write = "put"
    /\ handlers'[h].write = "done"

\* C18: with concurrent cache-miss GET requests for one new asset URL, a
\* bucket's entry for the URL is at every moment absent or exactly one
\* handler's whole response, never a mixture and never two entries; an entry
\* changes only when a put completes (or its bucket is deleted), and a
\* completed put leaves its own response as the bucket's entry, so after
\* all writes the entry is the response whose put completed last.
C18_LastWriteWinsWhole ==
    [][/\ \A h \in DOMAIN handlers :
             PutStep(h) =>
                 {e \in RacedEntries' : e.bucket = CACHE_NAME(handlers[h].w)}
                    = { [bucket |-> CACHE_NAME(handlers[h].w), key |-> PathLogo,
                         resp |-> handlers[h].clone] }
       /\ \A e \in RacedEntries' :
             \E h \in DOMAIN handlers' :
                 /\ handlers'[h].write = "done"
                 /\ e.bucket = CACHE_NAME(handlers'[h].w)
                 /\ e.resp = handlers'[h].result.resp
                 /\ e.resp = NetResponse(PathLogo, "200", <<"fetch", h>>)
       /\ NoDuplicates(caches')
       /\ \A e \in RacedEntries :
             \/ e \in RacedEntries'
             \/ e.bucket \notin BucketNames(caches')
             \/ \E h \in DOMAIN handlers : PutStep(h) /\ CACHE_NAME(handlers[h].w) = e.bucket]_vars

\* both requests missed, both were answered 200, both writes are over, and
\* the entry is the response of the request that arrived first
C18_Witness ==
    /\ Len(handlers) = 2
    /\ \A h \in {1, 2} : MissAnswered(h) /\ handlers[h].write = "done"
    /\ handlers[1].w = handlers[2].w
    /\ handlers[1].clone # handlers[2].clone
    /\ RacedEntries = { [bucket |-> CACHE_NAME(handlers[1].w), key |-> PathLogo,
                         resp |-> handlers[1].clone] }

C18_WitnessSecondLast ==
    /\ Len(handlers) = 2
    /\ \A h \in {1, 2} : MissAnswered(h) /\ handlers[h].write = "done"
    /\ handlers[1].w = handlers[2].w
    /\ RacedEntries = { [bucket |-> CACHE_NAME(handlers[2].w), key |-> PathLogo,
                         resp |-> handlers[2].clone] }
====
